---- MODULE Spec2Model ----
(***************************************************************************)
(* pipecat (src/pipecat.go): a bridge between line-oriented standard       *)
(* input/output and an AMQP queue.                                         *)
(*                                                                         *)
(*   consume  - the main goroutine registers a consumer, launches the      *)
(*              consumeMessages goroutine (and, unless --autoack, the      *)
(*              ackMessages goroutine) and blocks on <-forever.            *)
(*   publish  - reads standard input line by line, publishes each line     *)
(*              and echoes it.                                             *)
(*                                                                         *)
(* Byte strings are sequences of one-character strings.                    *)
(***************************************************************************)
EXTENDS Naturals, Sequences, FiniteSets

VARIABLES
    autoack,          \* c.Bool("autoack")
    nonBlocking,      \* c.Bool("non-blocking")
    mainPc,           \* position of consume(): "none", "launch", "forever", "closing", "exited"
    consumePc,        \* position of consumeMessages
    ackPc,            \* position of ackMessages
    mutex,            \* sync.Mutex: "free", or the goroutine holding it
    unackedMessages,  \* the slice of amqp.Delivery
    msgs,             \* deliveries in flight on the msgs channel
    closed,           \* the AMQP channel (and so msgs) is closed
    nextTag,          \* delivery tag the broker assigns next
    msg,              \* consumeMessages' local msg
    ackedLine,        \* ackMessages' local ackedLine
    hit,              \* ackMessages' loop index i of the matching entry
    linesRead,        \* number of lines ackMessages has read from stdin
    timeouts,         \* number of expiries of time.After(timeout)
    waited,           \* ticks since the pending time.After(timeout) was called
    idle,             \* history: ticks since consumeMessages last entered its select
    clock,            \* history: ticks spent waiting since startup, up to MaxClock
    acks,             \* history: msg.Ack(false) calls made on initialised deliveries
    received,         \* history: values received from msgs, in order
    inserted,         \* history: values appended to unackedMessages by consumeMessages
    removed,          \* history: entries discarded from unackedMessages by ackMessages
    stdout,           \* bytes written to standard output
    stdin,            \* publish: bytes of standard input
    pubPc,            \* publish: position: "none", "scan", "publish", "echo", "done", "fatal"
    pos,              \* publish: scanner position in stdin (next unread byte)
    line,             \* publish: local line
    lineNo,           \* publish: number of lines scanned so far
    err,              \* publish: channel.Publish returned an error
    published         \* publish: bodies handed to the broker, in order

vars == <<autoack, nonBlocking, mainPc, consumePc, ackPc, mutex, unackedMessages,
          msgs, closed, nextTag, msg, ackedLine, hit, linesRead, timeouts, acks,
          received, inserted, removed, stdout, stdin, pubPc, pos, line, lineNo, err,
          published, waited, idle, clock>>

timeVars == <<waited, idle, clock>>

consumeVars == <<autoack, nonBlocking, mainPc, consumePc, ackPc, mutex,
                 unackedMessages, msgs, closed, nextTag, msg, ackedLine, hit,
                 linesRead, timeouts, acks, received, inserted, removed,
                 waited, idle, clock>>

publishVars == <<stdin, pubPc, pos, line, lineNo, err, published>>

(***************************************************************************)
(* Bounds of the model.                                                    *)
(***************************************************************************)
MaxDeliveries == 2
MaxAckLines == 2
MaxTimeouts == 2
MaxZeroRecv == 1
MaxInput == 4
MaxClock == 3

\* The --timeout flag, in ticks of the model's clock.
TimeoutTicks == 2

(***************************************************************************)
(* Bytes, lines and deliveries.                                            *)
(***************************************************************************)
CR == "\r"
LF == "\n"

\* Bodies the broker may deliver.
Bodies == {<<>>, <<"a">>}

\* Raw lines (without the terminating newline) the acknowledgment stream may hold.
AckInput == {<<>>, <<"a">>, <<"b">>, <<"a", CR>>}

\* Bytes the publisher's standard input may hold.
InputBytes == {"a", CR, LF}

\* The length of the slice made for unackedMessages.
InitialLen == 100

\* The zero value of amqp.Delivery: nil Body, nil Acknowledger, tag 0.
ZeroDelivery == [tag |-> 0, body |-> <<>>]

\* A delivery the broker produced carries a tag >= 1 and an Acknowledger.
Initialised(d) == d.tag # 0

\* make([]amqp.Delivery, 100): a slice of length 100 holding zero values.
MakeDeliveries == [i \in 1..InitialLen |-> ZeroDelivery]

\* fmt.Sprintf("%s", body): the bytes of the body as a string (nil gives "").
Sprintf(body) == body

\* fmt.Println(s): s followed by a newline.
Println(s) == s \o <<LF>>

\* bufio's dropCR: one trailing carriage return is removed from a token.
DropCR(data) ==
    IF Len(data) > 0 /\ data[Len(data)] = CR
    THEN SubSeq(data, 1, Len(data) - 1)
    ELSE data

\* The range loop of ackMessages: index of the first entry whose body prints
\* as ackedLine, 0 when there is none.
FirstMatch(s, l) ==
    IF \E i \in 1..Len(s) : Sprintf(s[i].body) = l
    THEN CHOOSE i \in 1..Len(s) :
            /\ Sprintf(s[i].body) = l
            /\ \A j \in 1..(i - 1) : Sprintf(s[j].body) # l
    ELSE 0

\* A removal that always takes the head of the slice.
DiscardHead(s, i) == Tail(s)

\* A removal that leaves the slice as it is.
DiscardNothing(s, i) == s

\* append(unackedMessages[:i], unackedMessages[i+1:]...)
Discard(s, i) == SubSeq(s, 1, i - 1) \o SubSeq(s, i + 1, Len(s))

\* Number of zero values received from the closed msgs channel.
ZeroReceived == Cardinality({i \in 1..Len(received) : ~Initialised(received[i])})

Alive == mainPc \in {"launch", "forever", "closing"}

(***************************************************************************)
(* consume: initial state, after channel.Consume has registered.           *)
(***************************************************************************)
PublishIdle ==
    /\ stdin = <<>>
    /\ pubPc = "none"
    /\ pos = 1
    /\ line = <<>>
    /\ lineNo = 0
    /\ err = FALSE
    /\ published = <<>>

Init ==
    /\ autoack \in BOOLEAN
    /\ nonBlocking \in BOOLEAN
    /\ mainPc = "launch"
    /\ consumePc = "idle"
    /\ ackPc = "idle"
    /\ mutex = "free"
    /\ unackedMessages = MakeDeliveries
    /\ msgs = <<>>
    /\ closed = FALSE
    /\ nextTag = 1
    /\ msg = ZeroDelivery
    /\ ackedLine = <<>>
    /\ hit = 0
    /\ linesRead = 0
    /\ timeouts = 0
    /\ waited = 0
    /\ idle = 0
    /\ clock = 0
    /\ acks = <<>>
    /\ received = <<>>
    /\ inserted = <<>>
    /\ removed = <<>>
    /\ stdout = <<>>
    /\ PublishIdle

(***************************************************************************)
(* The broker.                                                             *)
(***************************************************************************)
\* The broker hands the next delivery to the consumer.
Deliver ==
    /\ Alive
    /\ ~closed
    /\ nextTag <= MaxDeliveries
    /\ \E b \in Bodies : msgs' = Append(msgs, [tag |-> nextTag, body |-> b])
    /\ nextTag' = nextTag + 1
    /\ UNCHANGED <<autoack, nonBlocking, mainPc, consumePc, ackPc, mutex,
                   unackedMessages, closed, msg, ackedLine, hit, linesRead,
                   timeouts, acks, received, inserted, removed, stdout>>
    /\ UNCHANGED publishVars
    /\ UNCHANGED timeVars

\* The AMQP channel closes: the client library closes msgs and drops what was
\* in flight.
BrokerClose ==
    /\ Alive
    /\ ~closed
    /\ closed' = TRUE
    /\ msgs' = <<>>
    /\ UNCHANGED <<autoack, nonBlocking, mainPc, consumePc, ackPc, mutex,
                   unackedMessages, nextTag, msg, ackedLine, hit, linesRead,
                   timeouts, acks, received, inserted, removed, stdout>>
    /\ UNCHANGED publishVars
    /\ UNCHANGED timeVars

\* A timer made once, before the loop: it keeps running across iterations.
TimerKeepsRunning == waited

\* time.After(timeout) is evaluated each time the select is entered: a new
\* timer, with the whole timeout ahead of it.
RestartTimer == 0

\* One tick of time passes while consumeMessages waits in its select with
\* nothing to receive and its timer not yet due.
Tick ==
    /\ Alive
    /\ consumePc = "select"
    /\ msgs = <<>>
    /\ ~closed
    /\ waited < TimeoutTicks
    /\ waited' = waited + 1
    /\ idle' = idle + 1
    /\ clock' = IF clock < MaxClock THEN clock + 1 ELSE clock
    /\ UNCHANGED <<autoack, nonBlocking, mainPc, consumePc, ackPc, mutex,
                   unackedMessages, msgs, closed, nextTag, msg, ackedLine, hit,
                   linesRead, timeouts, acks, received, inserted, removed, stdout>>
    /\ UNCHANGED publishVars

(***************************************************************************)
(* consume(): the main goroutine.                                          *)
(***************************************************************************)
\* if autoack { go consumeMessages() } else { go ackMessages(); go consumeMessages() }
Launch ==
    /\ mainPc = "launch"
    /\ mainPc' = "forever"
    /\ consumePc' = "select"
    /\ ackPc' = IF autoack THEN "idle" ELSE "read"
    /\ UNCHANGED <<autoack, nonBlocking, mutex, unackedMessages, msgs, closed,
                   nextTag, msg, ackedLine, hit, linesRead, timeouts, acks,
                   received, inserted, removed, stdout>>
    /\ UNCHANGED publishVars
    /\ waited' = RestartTimer
    /\ idle' = 0
    /\ UNCHANGED clock

\* forever <- false meets <-forever (unbuffered); consumeMessages returns.
Handoff ==
    /\ mainPc = "forever"
    /\ consumePc = "send"
    /\ mainPc' = "closing"
    /\ consumePc' = "returned"
    /\ UNCHANGED <<autoack, nonBlocking, ackPc, mutex, unackedMessages, msgs,
                   closed, nextTag, msg, ackedLine, hit, linesRead, timeouts,
                   acks, received, inserted, removed, stdout>>
    /\ UNCHANGED publishVars
    /\ UNCHANGED timeVars

\* A return of consume that acknowledges what is still pending before closing.
ExitAcksPending ==
    /\ mainPc = "closing"
    /\ mainPc' = "exited"
    /\ closed' = TRUE
    /\ msgs' = <<>>
    /\ acks' = acks \o [i \in 1..Len(SelectSeq(unackedMessages, Initialised)) |->
                          [tag |-> SelectSeq(unackedMessages, Initialised)[i].tag,
                           multiple |-> FALSE, ok |-> TRUE]]
    /\ UNCHANGED <<autoack, nonBlocking, consumePc, ackPc, mutex,
                   unackedMessages, nextTag, msg, ackedLine, hit, linesRead,
                   timeouts, received, inserted, removed, stdout>>
    /\ UNCHANGED publishVars
    /\ UNCHANGED timeVars

\* consume returns: the deferred channel.Close() and conn.Close() run and the
\* process exits, ending every goroutine.
Exit ==
    /\ mainPc = "closing"
    /\ mainPc' = "exited"
    /\ closed' = TRUE
    /\ msgs' = <<>>
    /\ UNCHANGED <<autoack, nonBlocking, consumePc, ackPc, mutex,
                   unackedMessages, nextTag, msg, ackedLine, hit, linesRead,
                   timeouts, acks, received, inserted, removed, stdout>>
    /\ UNCHANGED publishVars
    /\ UNCHANGED timeVars

(***************************************************************************)
(* consumeMessages.                                                        *)
(***************************************************************************)
\* The value case msg := <-msgs receives: the next delivery, or the zero value
\* of a closed channel.
Recv == IF msgs # <<>> THEN Head(msgs) ELSE ZeroDelivery

\* A consumeMessages that inserts whatever the autoack flag says.
AfterReceiveAlwaysInserts == "lock"

\* A consumeMessages that prints without ever inserting.
AfterReceiveNeverInserts == "print"

\* Where consumeMessages goes after receiving: the Ledger insert is skipped
\* under autoack.
AfterReceive == IF autoack THEN "print" ELSE "lock"

\* case msg := <-msgs
ConsumeReceive ==
    /\ Alive
    /\ consumePc = "select"
    /\ \/ msgs # <<>>
       \/ closed /\ ZeroReceived < MaxZeroRecv
    /\ msg' = Recv
    /\ msgs' = IF msgs # <<>> THEN Tail(msgs) ELSE msgs
    /\ received' = Append(received, Recv)
    /\ consumePc' = AfterReceive
    /\ UNCHANGED <<autoack, nonBlocking, mainPc, ackPc, mutex, unackedMessages,
                   closed, nextTag, ackedLine, hit, linesRead, timeouts, acks,
                   inserted, removed, stdout>>
    /\ UNCHANGED publishVars
    /\ UNCHANGED timeVars

\* An insert that does not wait for the mutex.
ConsumeLockNoWait ==
    /\ Alive
    /\ consumePc = "lock"
    /\ mutex' = "consume"
    /\ consumePc' = "append"
    /\ UNCHANGED <<autoack, nonBlocking, mainPc, ackPc, unackedMessages, msgs,
                   closed, nextTag, msg, ackedLine, hit, linesRead, timeouts,
                   acks, received, inserted, removed, stdout>>
    /\ UNCHANGED publishVars
    /\ UNCHANGED timeVars

\* mutex.Lock()
ConsumeLock ==
    /\ Alive
    /\ consumePc = "lock"
    /\ mutex = "free"
    /\ mutex' = "consume"
    /\ consumePc' = "append"
    /\ UNCHANGED <<autoack, nonBlocking, mainPc, ackPc, unackedMessages, msgs,
                   closed, nextTag, msg, ackedLine, hit, linesRead, timeouts,
                   acks, received, inserted, removed, stdout>>
    /\ UNCHANGED publishVars
    /\ UNCHANGED timeVars

\* unackedMessages = append(unackedMessages, msg)
ConsumeAppend ==
    /\ Alive
    /\ consumePc = "append"
    /\ unackedMessages' = Append(unackedMessages, msg)
    /\ inserted' = Append(inserted, msg)
    /\ consumePc' = "unlock"
    /\ UNCHANGED <<autoack, nonBlocking, mainPc, ackPc, mutex, msgs, closed,
                   nextTag, msg, ackedLine, hit, linesRead, timeouts, acks,
                   received, removed, stdout>>
    /\ UNCHANGED publishVars
    /\ UNCHANGED timeVars

\* mutex.Unlock()
ConsumeUnlock ==
    /\ Alive
    /\ consumePc = "unlock"
    /\ mutex' = "free"
    /\ consumePc' = "print"
    /\ UNCHANGED <<autoack, nonBlocking, mainPc, ackPc, unackedMessages, msgs,
                   closed, nextTag, msg, ackedLine, hit, linesRead, timeouts,
                   acks, received, inserted, removed, stdout>>
    /\ UNCHANGED publishVars
    /\ UNCHANGED timeVars

\* line := fmt.Sprintf("%s", msg.Body); fmt.Println(line)
ConsumePrint ==
    /\ Alive
    /\ consumePc = "print"
    /\ stdout' = stdout \o Println(Sprintf(msg.body))
    /\ consumePc' = "select"
    /\ UNCHANGED <<autoack, nonBlocking, mainPc, ackPc, mutex, unackedMessages,
                   msgs, closed, nextTag, msg, ackedLine, hit, linesRead,
                   timeouts, acks, received, inserted, removed>>
    /\ UNCHANGED publishVars
    /\ waited' = RestartTimer
    /\ idle' = 0
    /\ UNCHANGED clock

\* A timeout case that never ends the loop.
AfterTimeoutNeverStops == "select"

\* A timeout case that ends the loop without looking at the flag.
AfterTimeoutAlwaysStops == "send"

\* Where consumeMessages goes when the timer of the select fires.
AfterTimeout == IF nonBlocking THEN "send" ELSE "select"

\* case <-time.After(timeout): the wait lasted the whole timeout with nothing
\* to receive (a closed msgs is always ready, so the timer never wins then).
ConsumeTimeout ==
    /\ Alive
    /\ consumePc = "select"
    /\ msgs = <<>>
    /\ ~closed
    /\ timeouts < MaxTimeouts
    /\ timeouts' = timeouts + 1
    /\ consumePc' = AfterTimeout
    /\ UNCHANGED <<autoack, nonBlocking, mainPc, ackPc, mutex, unackedMessages,
                   msgs, closed, nextTag, msg, ackedLine, hit, linesRead, acks,
                   received, inserted, removed, stdout>>
    /\ UNCHANGED publishVars
    /\ waited' = RestartTimer
    /\ idle' = 0
    /\ UNCHANGED clock

(***************************************************************************)
(* ackMessages.                                                            *)
(***************************************************************************)
\* scanner.Scan() returns a line; ackedLine := scanner.Text()
AckRead ==
    /\ Alive
    /\ ackPc = "read"
    /\ linesRead < MaxAckLines
    /\ \E raw \in AckInput : ackedLine' = DropCR(raw)
    /\ linesRead' = linesRead + 1
    /\ ackPc' = "lock"
    /\ UNCHANGED <<autoack, nonBlocking, mainPc, consumePc, mutex,
                   unackedMessages, msgs, closed, nextTag, msg, hit, timeouts,
                   acks, received, inserted, removed, stdout>>
    /\ UNCHANGED publishVars
    /\ UNCHANGED timeVars

\* A listener whose end of input ends the whole process.
AckEOFEndsSession ==
    /\ Alive
    /\ ackPc = "read"
    /\ ackPc' = "returned"
    /\ mainPc' = "exited"
    /\ UNCHANGED <<autoack, nonBlocking, consumePc, mutex,
                   unackedMessages, msgs, closed, nextTag, msg, ackedLine, hit,
                   linesRead, timeouts, acks, received, inserted, removed, stdout>>
    /\ UNCHANGED publishVars
    /\ UNCHANGED timeVars

\* scanner.Scan() returns false at end of input; scanner.Err() is nil.
AckEOF ==
    /\ Alive
    /\ ackPc = "read"
    /\ ackPc' = "returned"
    /\ UNCHANGED <<autoack, nonBlocking, mainPc, consumePc, mutex,
                   unackedMessages, msgs, closed, nextTag, msg, ackedLine, hit,
                   linesRead, timeouts, acks, received, inserted, removed, stdout>>
    /\ UNCHANGED publishVars
    /\ UNCHANGED timeVars

\* mutex.Lock()
AckLock ==
    /\ Alive
    /\ ackPc = "lock"
    /\ mutex = "free"
    /\ mutex' = "ack"
    /\ ackPc' = "scan"
    /\ UNCHANGED <<autoack, nonBlocking, mainPc, consumePc, unackedMessages,
                   msgs, closed, nextTag, msg, ackedLine, hit, linesRead,
                   timeouts, acks, received, inserted, removed, stdout>>
    /\ UNCHANGED publishVars
    /\ UNCHANGED timeVars

\* The entry the range loop stops at for ackedLine (0: none).
Matching == FirstMatch(unackedMessages, ackedLine)

\* msg.Ack(false): an uninitialised delivery returns an error without reaching
\* the broker; otherwise the call is made, and fails on a closed channel. The
\* result is not looked at.
AckCall(d) ==
    IF Initialised(d)
    THEN Append(acks, [tag |-> d.tag, multiple |-> FALSE, ok |-> ~closed])
    ELSE acks

\* for i, msg := range unackedMessages { if unackedLine == ackedLine { msg.Ack(false) ...
AckScan ==
    /\ Alive
    /\ ackPc = "scan"
    /\ hit' = Matching
    /\ acks' = IF Matching = 0 THEN acks ELSE AckCall(unackedMessages[Matching])
    /\ ackPc' = IF Matching = 0 THEN "unlock" ELSE "discard"
    /\ UNCHANGED <<autoack, nonBlocking, mainPc, consumePc, mutex,
                   unackedMessages, msgs, closed, nextTag, msg, ackedLine,
                   linesRead, timeouts, received, inserted, removed, stdout>>
    /\ UNCHANGED publishVars
    /\ UNCHANGED timeVars

\* unackedMessages = append(unackedMessages[:i], unackedMessages[i+1:]...); break
AckDiscard ==
    /\ Alive
    /\ ackPc = "discard"
    /\ unackedMessages' = Discard(unackedMessages, hit)
    /\ removed' = Append(removed, unackedMessages[hit])
    /\ ackPc' = "unlock"
    /\ UNCHANGED <<autoack, nonBlocking, mainPc, consumePc, mutex, msgs, closed,
                   nextTag, msg, ackedLine, hit, linesRead, timeouts, acks,
                   received, inserted, stdout>>
    /\ UNCHANGED publishVars
    /\ UNCHANGED timeVars

\* A listener that keeps a line it could not match and scans for it again.
AckUnlockRetries ==
    /\ Alive
    /\ ackPc = "unlock"
    /\ mutex' = "free"
    /\ ackPc' = IF hit = 0 THEN "lock" ELSE "read"
    /\ UNCHANGED <<autoack, nonBlocking, mainPc, consumePc, unackedMessages,
                   msgs, closed, nextTag, msg, ackedLine, hit, linesRead,
                   timeouts, acks, received, inserted, removed, stdout>>
    /\ UNCHANGED publishVars
    /\ UNCHANGED timeVars

\* mutex.Unlock()
AckUnlock ==
    /\ Alive
    /\ ackPc = "unlock"
    /\ mutex' = "free"
    /\ ackPc' = "read"
    /\ UNCHANGED <<autoack, nonBlocking, mainPc, consumePc, unackedMessages,
                   msgs, closed, nextTag, msg, ackedLine, hit, linesRead,
                   timeouts, acks, received, inserted, removed, stdout>>
    /\ UNCHANGED publishVars
    /\ UNCHANGED timeVars

(***************************************************************************)
(* Specifications of consume.                                              *)
(***************************************************************************)
Next ==
    \/ Deliver
    \/ BrokerClose
    \/ Launch
    \/ Handoff
    \/ Exit
    \/ ConsumeReceive
    \/ ConsumeLock
    \/ ConsumeAppend
    \/ ConsumeUnlock
    \/ ConsumePrint
    \/ ConsumeTimeout
    \/ AckRead
    \/ AckEOF
    \/ AckLock
    \/ AckScan
    \/ AckDiscard
    \/ AckUnlock

Spec == Init /\ [][Next]_vars

\* The goroutines are scheduled and the timer fires: every step of the program
\* that stays enabled is eventually taken. What the broker sends and what
\* arrives on standard input is left to the environment.
Fairness ==
    /\ WF_vars(Launch)
    /\ WF_vars(Handoff)
    /\ WF_vars(Exit)
    /\ WF_vars(ConsumeReceive)
    /\ WF_vars(ConsumeLock)
    /\ WF_vars(ConsumeAppend)
    /\ WF_vars(ConsumeUnlock)
    /\ WF_vars(ConsumePrint)
    /\ WF_vars(ConsumeTimeout)
    /\ WF_vars(AckLock)
    /\ WF_vars(AckScan)
    /\ WF_vars(AckDiscard)
    /\ WF_vars(AckUnlock)

\* A session started with --non-blocking.
NonBlockingInit == Init /\ nonBlocking

FairSpec == NonBlockingInit /\ [][Next]_vars /\ Fairness

(***************************************************************************)
(* consume with the passage of time made explicit: the timeout case is     *)
(* taken only once the timer of the current select has run for the whole   *)
(* timeout.                                                                *)
(***************************************************************************)
\* The channel of time.After(timeout) is ready.
TimerDue == waited = TimeoutTicks

ConsumeTimeoutDue == TimerDue /\ ConsumeTimeout

TimedNext ==
    \/ Tick
    \/ ConsumeTimeoutDue
    \/ Deliver
    \/ BrokerClose
    \/ Launch
    \/ Handoff
    \/ Exit
    \/ ConsumeReceive
    \/ ConsumeLock
    \/ ConsumeAppend
    \/ ConsumeUnlock
    \/ ConsumePrint
    \/ AckRead
    \/ AckEOF
    \/ AckLock
    \/ AckScan
    \/ AckDiscard
    \/ AckUnlock

TimedSpec == NonBlockingInit /\ [][TimedNext]_vars

(***************************************************************************)
(* publish.                                                                *)
(***************************************************************************)
ConsumeIdle ==
    /\ autoack = FALSE
    /\ nonBlocking = FALSE
    /\ mainPc = "none"
    /\ consumePc = "idle"
    /\ ackPc = "idle"
    /\ mutex = "free"
    /\ unackedMessages = <<>>
    /\ msgs = <<>>
    /\ closed = FALSE
    /\ nextTag = 1
    /\ msg = ZeroDelivery
    /\ ackedLine = <<>>
    /\ hit = 0
    /\ linesRead = 0
    /\ timeouts = 0
    /\ waited = 0
    /\ idle = 0
    /\ clock = 0
    /\ acks = <<>>
    /\ received = <<>>
    /\ inserted = <<>>
    /\ removed = <<>>

\* Every content of standard input of at most MaxInput bytes.
Inputs == UNION {[1..n -> InputBytes] : n \in 0..MaxInput}

\* publish after prepare: scanner := bufio.NewScanner(os.Stdin)
PublishInit ==
    /\ ConsumeIdle
    /\ stdin \in Inputs
    /\ pubPc = "scan"
    /\ pos = 1
    /\ line = <<>>
    /\ lineNo = 0
    /\ err = FALSE
    /\ published = <<>>
    /\ stdout = <<>>

\* bufio.ScanLines: index of the first newline at or after p, 0 when none.
NewlineFrom(data, p) ==
    IF \E j \in p..Len(data) : data[j] = LF
    THEN CHOOSE j \in p..Len(data) :
            /\ data[j] = LF
            /\ \A k \in p..(j - 1) : data[k] # LF
    ELSE 0

\* A split function that keeps the carriage return.
TokenKeepsCR(data, p) ==
    IF NewlineFrom(data, p) = 0
    THEN SubSeq(data, p, Len(data))
    ELSE SubSeq(data, p, NewlineFrom(data, p) - 1)

\* bufio.ScanLines: the token starting at p: the bytes up to the newline (or to
\* the end of input when there is none), with dropCR applied.
Token(data, p) ==
    IF NewlineFrom(data, p) = 0
    THEN DropCR(SubSeq(data, p, Len(data)))
    ELSE DropCR(SubSeq(data, p, NewlineFrom(data, p) - 1))

\* bufio.ScanLines: the position after the token and its newline.
Advance(data, p) ==
    IF NewlineFrom(data, p) = 0 THEN Len(data) + 1 ELSE NewlineFrom(data, p) + 1

\* for scanner.Scan() { line := scanner.Text() ...
PubScan ==
    /\ pubPc = "scan"
    /\ pos <= Len(stdin)
    /\ line' = Token(stdin, pos)
    /\ pos' = Advance(stdin, pos)
    /\ lineNo' = lineNo + 1
    /\ pubPc' = "publish"
    /\ UNCHANGED <<stdin, err, published, stdout>>
    /\ UNCHANGED consumeVars

\* scanner.Scan() returns false at end of input; scanner.Err() is nil and
\* publish returns.
PubEOF ==
    /\ pubPc = "scan"
    /\ pos > Len(stdin)
    /\ pubPc' = "done"
    /\ UNCHANGED <<stdin, pos, line, lineNo, err, published, stdout>>
    /\ UNCHANGED consumeVars

\* A failOnError that only logs.
FailOnErrorContinues(e, next) == next

\* failOnError(err, ...): log.Fatalf ends the process when err is not nil.
FailOnError(e, next) == IF e THEN "fatal" ELSE next

\* The Body of the amqp.Publishing: []byte(line).
Body(l) == l

\* err := channel.Publish(...); failOnError(err, "Failed to publish a message")
PubPublish ==
    /\ pubPc = "publish"
    /\ \E e \in BOOLEAN :
        /\ err' = e
        /\ published' = IF e THEN published ELSE Append(published, Body(line))
        /\ pubPc' = FailOnError(e, "echo")
    /\ UNCHANGED <<stdin, pos, line, lineNo, stdout>>
    /\ UNCHANGED consumeVars

\* fmt.Println(line)
PubEcho ==
    /\ pubPc = "echo"
    /\ stdout' = stdout \o Println(line)
    /\ pubPc' = "scan"
    /\ UNCHANGED <<stdin, pos, line, lineNo, err, published>>
    /\ UNCHANGED consumeVars

PublishNext ==
    \/ PubScan
    \/ PubEOF
    \/ PubPublish
    \/ PubEcho

PublishSpec == PublishInit /\ [][PublishNext]_vars

(***************************************************************************)
(* Properties.                                                             *)
(***************************************************************************)
Range(s) == {s[i] : i \in DOMAIN s}

\* Tags of the deliveries msg.Ack(false) was called on.
AckedTags == {acks[i].tag : i \in DOMAIN acks}

\* A delivery of the broker waiting in the Ledger with body l.
Pending(d, l) == Initialised(d) /\ d.body = l

\* Entry i is the oldest pending delivery with body l.
OldestPending(i, l) ==
    /\ Pending(unackedMessages[i], l)
    /\ \A j \in 1..(i - 1) : ~Pending(unackedMessages[j], l)

\* The step of ackMessages that scans the Ledger for ackedLine.
ScanStep == ackPc = "scan" /\ ackPc' # "scan"

\* The bodies of a sequence of deliveries.
BodiesOf(ds) == [i \in 1..Len(ds) |-> ds[i].body]

\* The newline-terminated lines of a byte sequence (a last line may lack its
\* newline).
RECURSIVE RawLines(_)
RawLines(s) ==
    IF s = <<>> THEN <<>>
    ELSE IF \E j \in 1..Len(s) : s[j] = LF
         THEN LET j == CHOOSE j \in 1..Len(s) :
                          s[j] = LF /\ \A k \in 1..(j - 1) : s[k] # LF
              IN <<SubSeq(s, 1, j - 1)>> \o RawLines(SubSeq(s, j + 1, Len(s)))
         ELSE <<s>>

\* The bytes written by printing each delivery of ds in turn.
RECURSIVE PrintAll(_)
PrintAll(ds) ==
    IF ds = <<>> THEN <<>>
    ELSE Println(Sprintf(Head(ds).body)) \o PrintAll(Tail(ds))

\* The values consumeMessages has finished handling.
Handled ==
    IF consumePc \in {"lock", "append", "unlock", "print"}
    THEN SubSeq(received, 1, Len(received) - 1)
    ELSE received

\* C1: with autoack disabled, a delivery is acknowledged if and only if the
\* listener, scanning the Ledger for a line it read, finds that delivery to be
\* the oldest pending delivery whose body equals the line; this for every
\* body, the empty one included.
C1_AckIffMatchingLine ==
    [][ ~autoack =>
          /\ ScanStep =>
                \A i \in 1..Len(unackedMessages) :
                    OldestPending(i, ackedLine) =>
                        unackedMessages[i].tag \in AckedTags'
          /\ \A t \in AckedTags' \ AckedTags :
                /\ ScanStep
                /\ \E i \in 1..Len(unackedMessages) :
                      /\ unackedMessages[i].tag = t
                      /\ OldestPending(i, ackedLine)
      ]_vars

\* C2: when the listener discards the entry matched by a line, the oldest
\* pending delivery with that body is the one acknowledged and removed, and
\* every later pending delivery with that body stays in the Ledger,
\* unacknowledged.
C2_FirstMatchWins ==
    [][ (ackPc = "discard" /\ ackPc' # "discard") =>
          \A i \in 1..Len(unackedMessages) :
              /\ OldestPending(i, ackedLine) =>
                    /\ unackedMessages[i].tag \in AckedTags
                    /\ unackedMessages[i] \notin Range(unackedMessages')
              /\ (Pending(unackedMessages[i], ackedLine)
                    /\ ~OldestPending(i, ackedLine)) =>
                    /\ unackedMessages[i] \in Range(unackedMessages')
                    /\ unackedMessages[i].tag \notin AckedTags'
      ]_vars

\* C3: while the listener handles a line that no pending delivery's body
\* equals, the Ledger does not change and no acknowledgment is sent.
C3_UnmatchedLineChangesNothing ==
    [][ ( /\ ackPc \in {"scan", "discard"}
          /\ \A i \in 1..Len(unackedMessages) :
                ~Pending(unackedMessages[i], ackedLine) ) =>
          /\ unackedMessages' = unackedMessages
          /\ acks' = acks
      ]_vars

\* C4: in every reachable state the Ledger holds exactly the inserted
\* deliveries that no acknowledgment match removed, in insertion order, and
\* nothing that was never inserted.
C4_LedgerIsInsertedMinusRemoved ==
    mainPc # "none" =>
        /\ Len(unackedMessages) + Len(removed) = Len(inserted)
        /\ Range(unackedMessages) \subseteq Range(inserted)
        /\ SelectSeq(unackedMessages, Initialised)
             = SelectSeq(inserted,
                         LAMBDA d : Initialised(d) /\ d \notin Range(removed))

\* C5: in non-blocking mode the first expiry of the idle timer takes the loop
\* from Running to Draining (waiting on forever) and never back, and from
\* there the loop returns and the process exits, whatever ackMessages is doing.
C5_NonBlockingShutdown ==
    /\ [](nonBlocking /\ timeouts >= 1 =>
            timeouts = 1 /\ consumePc \in {"send", "returned"})
    /\ [][consumePc' = "returned" => consumePc \in {"send", "returned"}]_vars
    /\ (nonBlocking /\ timeouts >= 1) ~>
            (consumePc = "returned" /\ mainPc = "exited")

\* The session has stopped after a timeout while ackMessages held the lock.
C5_Witness ==
    /\ nonBlocking
    /\ timeouts = 1
    /\ consumePc = "returned"
    /\ mainPc = "exited"
    /\ mutex = "ack"

\* C6: in blocking mode the loop never leaves Running and the session never
\* ends, and an expiry of the idle timer changes neither the Ledger nor the
\* output: the loop is back at its select.
C6_BlockingIgnoresTimeout ==
    /\ []((mainPc # "none" /\ ~nonBlocking) =>
            /\ consumePc \notin {"send", "returned"}
            /\ mainPc \notin {"closing", "exited"})
    /\ [][ (~nonBlocking /\ timeouts' # timeouts) =>
            /\ consumePc = "select"
            /\ consumePc' = "select"
            /\ unackedMessages' = unackedMessages
            /\ stdout' = stdout
         ]_vars

\* Several timeouts have expired in blocking mode, between deliveries.
C6_Witness ==
    /\ mainPc = "forever"
    /\ ~nonBlocking
    /\ timeouts >= 2
    /\ Len(received) >= 1
    /\ consumePc = "select"

\* C7: under autoack ackMessages is never launched, nothing is inserted into
\* the Ledger, which stays as it was made, the lock is never taken, no
\* acknowledgment is sent, and every value received is printed, in order.
C7_AutoAckLeavesLedgerAlone ==
    (mainPc # "none" /\ autoack) =>
        /\ ackPc = "idle"
        /\ unackedMessages = [i \in 1..InitialLen |-> ZeroDelivery]
        /\ inserted = <<>>
        /\ removed = <<>>
        /\ acks = <<>>
        /\ mutex = "free"
        /\ consumePc \notin {"lock", "append", "unlock"}
        /\ stdout = PrintAll(Handled)

\* Two deliveries have been received and printed under autoack.
C7_Witness ==
    /\ autoack
    /\ consumePc = "select"
    /\ Len(received) = 2
    /\ received[1].body = <<"a">>
    /\ Initialised(received[2])

\* C8: the lines written to output are exactly the bodies of the deliveries
\* received from the broker, in receipt order, one line each.
C8_OutputIsDeliveries ==
    mainPc # "none" =>
        RawLines(stdout) = BodiesOf(SelectSeq(Handled, Initialised))

\* The lines of the publisher's input as the line scanner reads them: split at
\* newlines, one trailing carriage return removed.
ScannedLines == [i \in 1..Len(RawLines(stdin)) |-> DropCR(RawLines(stdin)[i])]

\* The first n elements of a sequence.
Prefix(s, n) == SubSeq(s, 1, n)

C10_FailureIsFatal ==
    err =>
        /\ pubPc = "fatal"
        /\ Len(published) = lineNo - 1
        /\ RawLines(stdout) = Prefix(RawLines(stdin), lineNo - 1)

\* C10 as amended: when publishing line k fails the process ends in error,
\* line k is neither published nor echoed, nothing follows, and the output is
\* the first k-1 input lines with one trailing carriage return removed from
\* each.
C10_FailureIsFatalScanned ==
    err =>
        /\ pubPc = "fatal"
        /\ lineNo >= 1
        /\ published = Prefix(ScannedLines, lineNo - 1)
        /\ RawLines(stdout) = Prefix(ScannedLines, lineNo - 1)

\* Publishing the second line has failed after the first was echoed.
C10_Witness ==
    /\ err
    /\ pubPc = "fatal"
    /\ lineNo = 2
    /\ Len(RawLines(stdout)) = 1

\* The indices of the Ledger holding deliveries of the broker.
PendingAt == {i \in 1..Len(unackedMessages) : Initialised(unackedMessages[i])}

\* The sequence s with its element i left out.
Without(s, i) ==
    [k \in 1..(Len(s) - 1) |-> IF k < i THEN s[k] ELSE s[k + 1]]

\* C11: no delivery of the broker is in the Ledger twice, and a step that
\* changes the Ledger either appends to it (consumeMessages' insert) or is the
\* listener's discard of exactly one entry whose body equals the line read;
\* nothing else (timeout, shutdown, a line matching no entry) removes an entry.
C11_LedgerInvariant ==
    /\ [](\A i \in PendingAt :
            \A j \in 1..Len(unackedMessages) :
                j # i => unackedMessages[j] # unackedMessages[i])
    /\ [][ unackedMessages' # unackedMessages =>
            \/ /\ consumePc = "append"
               /\ \E d \in {msg} : unackedMessages' = Append(unackedMessages, d)
            \/ /\ ackPc = "discard"
               /\ \E i \in 1..Len(unackedMessages) :
                     /\ Sprintf(unackedMessages[i].body) = ackedLine
                     /\ unackedMessages' = Without(unackedMessages, i)
         ]_vars

\* A delivery has left the Ledger by a matching line while another one, with
\* the same body, is still in it.
C11_Witness ==
    /\ \E i \in DOMAIN removed :
          /\ Initialised(removed[i])
          /\ removed[i].body = <<"a">>
    /\ \E i \in PendingAt : unackedMessages[i].body = <<"a">>

\* consumeMessages is between its Lock and its Unlock.
ConsumeInCritical == consumePc \in {"append", "unlock"}

\* ackMessages is between its Lock and its Unlock.
AckInCritical == ackPc \in {"scan", "discard", "unlock"}

\* C12: the two goroutines are never both inside their critical sections; a
\* goroutine is inside its critical section exactly when it holds the mutex,
\* so the mutex is free of it while it waits on msgs, the timer, standard
\* input, the mutex itself or forever; and the Ledger is scanned and changed
\* only by the holder of the mutex.
C12_LockDiscipline ==
    /\ [](~(ConsumeInCritical /\ AckInCritical))
    /\ [](ConsumeInCritical <=> mutex = "consume")
    /\ [](AckInCritical <=> mutex = "ack")
    /\ [][ (unackedMessages' # unackedMessages \/ inserted' # inserted
              \/ removed' # removed \/ hit' # hit \/ acks' # acks) =>
            \/ mutex = "consume" /\ consumePc = "append"
            \/ mutex = "ack" /\ ackPc \in {"scan", "discard"}
         ]_vars

\* consumeMessages waits for the mutex while ackMessages, holding it, is about
\* to discard a matched entry.
C12_Witness ==
    /\ consumePc = "lock"
    /\ ackPc = "discard"
    /\ mutex = "ack"

\* C13: in non-blocking mode the loop leaves Running only when a whole timeout
\* has passed since the current wait began; the timer of a wait starts at
\* zero, whatever time earlier waits took, so a session whose deliveries each
\* arrive within the timeout of their wait keeps running.
C13_TimerRestartsEachIteration ==
    /\ [](consumePc = "select" => waited = idle)
    /\ [][ consumePc' = "select" /\ consumePc # "select" => waited' = 0 ]_vars
    /\ [][ (consumePc = "select" /\ consumePc' = "send") =>
              idle = TimeoutTicks ]_vars
    /\ []((timeouts = 0 /\ mainPc # "none") =>
              consumePc \notin {"send", "returned"})

\* The loop is still running, in a new wait, after more time than one timeout
\* has passed since startup: every delivery came before its wait timed out.
C13_Witness ==
    /\ nonBlocking
    /\ consumePc = "select"
    /\ timeouts = 0
    /\ clock > TimeoutTicks
    /\ idle < TimeoutTicks
    /\ Len(received) = 2

\* C14: no delivery is acknowledged twice; an acknowledged delivery is out of
\* the Ledger once the listener's critical section ends (inside it, only the
\* entry about to be discarded is acknowledged and still present); every
\* acknowledgment is a single, non-multiple one; a line read is scanned once
\* and so causes at most one acknowledgment and at most one removal; and the
\* mutex is held from the acknowledgment to the removal.
C14_AckedOnceAndRemoved ==
    /\ [](\A i, j \in DOMAIN acks : i # j => acks[i].tag # acks[j].tag)
    /\ [](\A i \in DOMAIN acks : acks[i].multiple = FALSE)
    /\ [](\A k \in PendingAt :
            unackedMessages[k].tag \in AckedTags =>
                ackPc = "discard" /\ hit = k)
    /\ [](Len(acks) <= linesRead /\ Len(removed) <= linesRead)
    /\ [](ackPc = "discard" => mutex = "ack")
    /\ [][ acks' # acks =>
            /\ ackPc = "scan" /\ ackPc' = "discard"
            /\ Len(acks') = Len(acks) + 1 ]_vars
    /\ [][ removed' # removed =>
            /\ ackPc = "discard" /\ ackPc' = "unlock"
            /\ Len(removed') = Len(removed) + 1
            /\ Len(unackedMessages') + 1 = Len(unackedMessages) ]_vars
    /\ [][ (ackPc' = "scan" /\ ackPc # "scan") => ackPc = "lock" ]_vars
    /\ [][ (ackPc' = "lock" /\ ackPc # "lock") =>
            (ackPc = "read" /\ linesRead' = linesRead + 1) ]_vars

\* Two deliveries with the same body have each been acknowledged, by one line
\* each, and are out of the Ledger.
C14_Witness ==
    /\ Len(acks) = 2
    /\ linesRead = 2
    /\ ackPc = "read"
    /\ PendingAt = {}
    /\ \A i \in DOMAIN removed : removed[i].body = <<"a">>

\* A step of the non-blocking shutdown: the timeout case sending on forever,
\* the hand-off to consume, and consume's return and the process exit.
ShutdownStep ==
    \/ consumePc' # consumePc /\ consumePc' \in {"send", "returned"}
    \/ mainPc' # mainPc /\ mainPc' \in {"closing", "exited"}

Candidates(l) == {k \in DOMAIN unackedMessages : Sprintf(unackedMessages[k].body) = l}

\* C16: a line is scanned once, against the Ledger as it is while the listener
\* holds the lock. A scan that ends without a match found no entry equal to the
\* line, so every delivery inserted by then was looked at, and it changes
\* nothing; the listener then waits for a new line, so the line is never
\* applied to a delivery inserted later. An acknowledged delivery was in the
\* Ledger, equal to the line, when the scan ran.
C16_LinesAreNotBuffered ==
    /\ [][ (ackPc = "scan" /\ ackPc' # "scan") =>
            /\ mutex = "ack"
            /\ IF Candidates(ackedLine) = {}
               THEN /\ ackPc' = "unlock"
                    /\ acks' = acks
                    /\ unackedMessages' = unackedMessages
                    /\ removed' = removed
               ELSE /\ ackPc' = "discard"
                    /\ hit' \in Candidates(ackedLine) ]_vars
    /\ [][ acks' # acks =>
            /\ ackPc = "scan"
            /\ \E k \in Candidates(ackedLine) :
                  /\ Initialised(unackedMessages[k])
                  /\ acks' = Append(acks, [tag |-> unackedMessages[k].tag,
                                           multiple |-> FALSE, ok |-> ~closed]) ]_vars
    /\ [][ (ackPc = "unlock" /\ ackPc' # "unlock") =>
            /\ ackPc' = "read"
            /\ acks' = acks
            /\ unackedMessages' = unackedMessages ]_vars
    /\ [][ (ackPc' = "lock" /\ ackPc # "lock") =>
            /\ ackPc = "read"
            /\ linesRead' = linesRead + 1 ]_vars
    /\ [][ (ackPc' = "scan" /\ ackPc # "scan") => ackPc = "lock" ]_vars
    /\ [](\A i \in DOMAIN acks :
            \E j \in DOMAIN inserted : inserted[j].tag = acks[i].tag)

\* The line "a" was read and dropped while nothing with body "a" was pending;
\* a delivery with body "a" inserted afterwards is pending and unacknowledged,
\* and the listener is waiting for the next line.
C16_Witness ==
    /\ linesRead = 1
    /\ ackedLine = <<"a">>
    /\ ackPc = "read"
    /\ hit = 0
    /\ acks = <<>>
    /\ \E k \in PendingAt : unackedMessages[k].body = <<"a">>

\* The deliveries of the broker whose body has been written to standard output.
Printed == {i \in DOMAIN Handled : Initialised(Handled[i])}

\* C17: with autoack disabled, a body is written only after its delivery was
\* appended to the Ledger and the lock released; every delivery whose body is
\* on standard output is in the Ledger or acknowledged; so a scan for a line
\* equal to a body already written finds a match unless that delivery is
\* acknowledged already.
C17_InsertBeforeOutput ==
    /\ [][ (stdout' # stdout /\ ~autoack) =>
            /\ consumePc = "print"
            /\ mutex # "consume"
            /\ inserted # <<>>
            /\ inserted[Len(inserted)] = msg
            /\ Initialised(msg) =>
                  \/ \E k \in DOMAIN unackedMessages : unackedMessages[k] = msg
                  \/ msg.tag \in AckedTags
            /\ stdout' = stdout \o Println(Sprintf(msg.body)) ]_vars
    /\ [](~autoack =>
            \A i \in Printed :
                \/ \E k \in DOMAIN unackedMessages : unackedMessages[k] = Handled[i]
                \/ Handled[i].tag \in AckedTags)
    /\ [][ (~autoack /\ ackPc = "scan" /\ ackPc' = "unlock") =>
            \A i \in Printed :
                Sprintf(Handled[i].body) = ackedLine =>
                    Handled[i].tag \in AckedTags ]_vars

\* The body "a" of a delivery is on standard output and the line "a", read by
\* the listener, has matched: the delivery is acknowledged.
C17_Witness ==
    /\ ~autoack
    /\ consumePc = "select"
    /\ stdout = Println(<<"a">>)
    /\ Len(Handled) = 1
    /\ Printed = {1}
    /\ linesRead = 1
    /\ ackedLine = <<"a">>
    /\ ackPc = "discard"
    /\ Handled[1].tag \in AckedTags

\* C18: a delivery leaves the Ledger only after an acknowledgment of it that
\* the broker accepted; a delivery whose msg.Ack returned an error stays
\* pending.
C18_RemovedOnlyWhenAckSucceeded ==
    \A i \in DOMAIN removed :
        Initialised(removed[i]) =>
            \E j \in DOMAIN acks :
                /\ acks[j].tag = removed[i].tag
                /\ acks[j].ok

\* C19: at the end of standard input ackMessages returns from its read, not
\* holding the lock, and nothing else changes: the process and the loop go
\* on. From then on no acknowledgment is sent and nothing is removed, every
\* step of the loop can still be taken, and in non-blocking mode an expiry of
\* the idle timer still ends the session.
C19_EndOfAckInput ==
    /\ [][ (ackPc' = "returned" /\ ackPc # "returned") =>
            /\ ackPc = "read"
            /\ mutex # "ack"
            /\ mutex' = mutex
            /\ mainPc' = mainPc
            /\ consumePc' = consumePc
            /\ unackedMessages' = unackedMessages
            /\ acks' = acks
            /\ stdout' = stdout ]_vars
    /\ [][ ackPc = "returned" =>
            /\ ackPc' = "returned"
            /\ acks' = acks
            /\ removed' = removed ]_vars
    /\ []((ackPc = "returned" /\ Alive) =>
            /\ mutex # "ack"
            /\ (consumePc = "select" /\ msgs # <<>>) => ENABLED ConsumeReceive
            /\ consumePc = "lock" => ENABLED ConsumeLock
            /\ consumePc = "append" => ENABLED ConsumeAppend
            /\ consumePc = "unlock" => ENABLED ConsumeUnlock
            /\ consumePc = "print" => ENABLED ConsumePrint)
    /\ (ackPc = "returned" /\ nonBlocking /\ timeouts >= 1) ~>
            (consumePc = "returned" /\ mainPc = "exited")

\* Standard input ended before any line; a delivery was received, inserted
\* and printed, stays pending, and the idle timeout has ended the session.
C19_Witness ==
    /\ ackPc = "returned"
    /\ linesRead = 0
    /\ nonBlocking
    /\ timeouts = 1
    /\ mainPc = "exited"
    /\ stdout = Println(<<"a">>)
    /\ acks = <<>>
    /\ \E k \in PendingAt : unackedMessages[k].body = <<"a">>

\* C20: once the channel of deliveries is closed the loop receives nothing
\* more from it; whatever is inserted into the Ledger or written to standard
\* output is a delivery of the broker.
C20_ClosedStreamIsQuiet ==
    /\ [][ closed => received' = received ]_vars
    /\ [][ inserted' # inserted => Initialised(msg) ]_vars
    /\ [][ stdout' # stdout => Initialised(msg) ]_vars

====
